---- MODULE Spec2Model ----
(***************************************************************************)
(* Job orchestration core of the ORCA automation pipeline:                 *)
(*   - StateStore    (orca_state.py): the persisted document               *)
(*                   {queued, running, completed, failed} and its          *)
(*                   lock-protected read-modify-write operations;          *)
(*   - JobManager    (orca_job_manager.py): process_jobs control loop,     *)
(*                   the worker pool, _execute_job and its success and     *)
(*                   failure handlers, stop;                               *)
(*   - XYZFileHandler / ORCAPipeline (orca_main.py): intake of geometry    *)
(*                   files from the watched input directory, stop.         *)
(* Timestamps stored in the document (added_at, started_at, last_updated)  *)
(* are never read by the code and are left out of the records.            *)
(***************************************************************************)
EXTENDS Integers, Sequences, FiniteSets, TLC

(***************************************************************************)
(* Bounds of the model.                                                    *)
(***************************************************************************)
\* threads calling get_next_job concurrently in SpecDequeue
NumCallers == 3
\* geometry files dropped into the input directory along one run
MaxDrops == 1
\* seconds the wall clock advances along one run
MaxTime == 1
\* jobs in the queue when the scheduler starts, in Spec
MaxJobs == 2
\* chunks a serialised document is written in
FileLen == 2
\* StateStore calls followed in SpecWrite and SpecStoreOps
MaxOps == 3

(***************************************************************************)
(* Configuration: [execution] max_parallel_jobs and max_retries, read in    *)
(* JobManager.__init__ (orca_job_manager.py:25-26), at small values.       *)
(***************************************************************************)
max_parallel == 2
max_retries == 1

(***************************************************************************)
(* Configuration: the values Notifier.__init__ falls back to for           *)
(* [notification] notification_threshold and notification_interval_minutes *)
(* (orca_notifier.py:17-18); [gmail] enabled is true.                      *)
(***************************************************************************)
threshold == 5
interval == 60

(***************************************************************************)
(* Values.                                                                 *)
(***************************************************************************)
\* file stems of geometry files; a stem containing "_freq" gives a Derived job
Molecules == {"A", "A_freq"}

\* orca_main.py:54   calc_type = 'freq' if '_freq' in molecule_name else 'opt'
calc_type_of(molecule_name) ==
    IF molecule_name \in {"A_freq", "B_freq", "C_freq", "A_freq_freq"} THEN "freq" ELSE "opt"

\* orca_job_manager.py:214   f"{molecule_name}_freq", the stem chaining writes
freq_stem(molecule_name) ==
    CASE molecule_name = "A" -> "A_freq"
      [] molecule_name = "B" -> "B_freq"
      [] molecule_name = "C" -> "C_freq"
      [] OTHER -> "A_freq_freq"

\* orca_main.py:65   job_id = f"{molecule_name}_{calc_type}_{int(time.time())}"
make_job_id(molecule_name, t) == <<molecule_name, calc_type_of(molecule_name), t>>

\* orca_main.py:66-72   job_info built by the intake; its xyz_file and inp_file
\* are <waiting_dir>/<molecule_name>.xyz and .inp (see inp_file, xyz_file)
make_job_info(molecule_name) ==
    [molecule_name |-> molecule_name,
     calc_type |-> calc_type_of(molecule_name),
     retry_count |-> 0]

NoJob == <<>>
NoThread == 0

(***************************************************************************)
(* StateStore: operations on the document, as performed inside             *)
(* `with self.lock` between _load_state and _save_state.                   *)
(***************************************************************************)
\* orca_state.py:20-26 / 31-36
empty_state == [queued |-> <<>>, running |-> <<>>, completed |-> <<>>, failed |-> <<>>]

\* the running dict: a function from job ids to the stored record
running_ids(state) == DOMAIN state.running

dict_put(d, k, v) == [x \in (DOMAIN d) \cup {k} |-> IF x = k THEN v ELSE d[x]]
dict_pop(d, k) == [x \in (DOMAIN d) \ {k} |-> d[x]]

queued_ids(state) == {state.queued[i].job_id : i \in 1..Len(state.queued)}

\* orca_state.py:44-55
add_job_unchecked(state, job_id, job_info) ==
    [state EXCEPT !.queued = Append(@, [job_id |-> job_id, info |-> job_info])]
add_job(state, job_id, job_info) ==
    IF job_id \notin queued_ids(state)
    THEN [state EXCEPT !.queued = Append(@, [job_id |-> job_id, info |-> job_info])]
    ELSE state

\* orca_state.py:57-70   returns the new document and the (job_id, info) pair
get_next_job_newest_first(state) ==
    IF state.queued # <<>>
    THEN LET job == state.queued[Len(state.queued)] IN
         [state |-> [state EXCEPT !.queued = SubSeq(@, 1, Len(@) - 1),
                                  !.running = dict_put(@, job.job_id, [info |-> job.info])],
          job_id |-> job.job_id,
          info |-> job.info]
    ELSE [state |-> state, job_id |-> NoJob, info |-> NoJob]
get_next_job(state) ==
    IF state.queued # <<>>
    THEN LET job == Head(state.queued) IN
         [state |-> [state EXCEPT !.queued = Tail(@),
                                  !.running = dict_put(@, job.job_id, [info |-> job.info])],
          job_id |-> job.job_id,
          info |-> job.info]
    ELSE [state |-> state, job_id |-> NoJob, info |-> NoJob]

\* orca_state.py:72-85
mark_completed_unconditional(state, job_id) ==
    [state EXCEPT !.running = dict_pop(@, job_id),
                  !.completed = Append(@, [job_id |-> job_id,
                                           info |-> IF job_id \in running_ids(state)
                                                    THEN state.running[job_id].info
                                                    ELSE NoJob])]
mark_completed(state, job_id) ==
    IF job_id \in running_ids(state)
    THEN [state EXCEPT !.running = dict_pop(@, job_id),
                       !.completed = Append(@, [job_id |-> job_id,
                                                info |-> state.running[job_id].info])]
    ELSE state

\* orca_state.py:87-100
mark_failed(state, job_id, error_info) ==
    IF job_id \in running_ids(state)
    THEN [state EXCEPT !.running = dict_pop(@, job_id),
                       !.failed = Append(@, [job_id |-> job_id,
                                             info |-> state.running[job_id].info,
                                             error |-> error_info])]
    ELSE state

\* orca_state.py:114-120
clear_running(state, job_id) ==
    IF job_id \in running_ids(state)
    THEN [state EXCEPT !.running = dict_pop(@, job_id)]
    ELSE state

\* orca_state.py:108-112
get_queue_size(state) == Len(state.queued)

(***************************************************************************)
(* Notifier (orca_notifier.py), with [gmail] enabled: the counter and the  *)
(* time of the last completion mail; `alerts` counts the completion mails  *)
(* send_email has sent and `sent_at` is the time of the latest one;        *)
(* `errors` counts, per job id, the calls of send_email by notify_error;   *)
(* `completions` counts the calls of notify_completion; `frames` holds,    *)
(* per pool thread, where it is in notify_completion and the counter value *)
(* it has loaded.  Times are in seconds.                                   *)
(***************************************************************************)
None == 0 - 1

\* orca_job_manager.py:39-43   the threads of the executor
PoolThreads == 1..max_parallel

\* orca_notifier.py:20-21
fresh_notifier ==
    [completion_count |-> 0, last_notification |-> None, completions |-> 0,
     alerts |-> 0, sent_at |-> None, errors |-> <<>>, frames |-> [w \in PoolThreads |-> [pc |-> "idle", reg |-> 0]]]

\* orca_notifier.py:23-35   should_notify at wall-clock time t
should_notify_every_time(n, t) == TRUE

should_notify(n, t) ==
    /\ n.completion_count >= threshold
    /\ \/ n.last_notification = None
       \/ t - n.last_notification > interval * 60

\* orca_notifier.py:61   notify_completion is entered
enter_completion(n) == [n EXCEPT !.completions = @ + 1]

\* orca_notifier.py:63   self.completion_count += 1
count_completion(n) == [n EXCEPT !.completion_count = @ + 1]

\* orca_notifier.py:37-59, 71   send_email sends the completion mail and returns True
deliver_alert(n, t) == [n EXCEPT !.alerts = @ + 1, !.sent_at = t]

\* orca_notifier.py:72-73   after send_email returned True
record_alert(n, t) == [n EXCEPT !.last_notification = t, !.completion_count = 0]

\* orca_notifier.py:61-73   notify_completion run without interruption at time
\* t; sent_ok is what send_email returns (False when SMTP fails)
notify_completion(n, t, sent_ok) ==
    LET counted == count_completion(enter_completion(n)) IN
    IF should_notify(counted, t) /\ sent_ok
    THEN record_alert(deliver_alert(counted, t), t)
    ELSE counted

\* orca_notifier.py:75-83   notify_error: one call of send_email, whatever the
\* counter and the time of the last completion mail
notify_error_over_threshold(n, job_id) ==
    IF n.completion_count >= threshold
    THEN [n EXCEPT !.errors = dict_put(@, job_id,
                       IF job_id \in DOMAIN @ THEN @[job_id] + 1 ELSE 1)]
    ELSE n

notify_error(n, job_id) ==
    [n EXCEPT !.errors = dict_put(@, job_id,
                  IF job_id \in DOMAIN @ THEN @[job_id] + 1 ELSE 1)]

\* what is fixed when the process starts: any engine behaviour, nothing found
\* in `running`
any_engine == [script |-> "any", running |-> <<>>]

(***************************************************************************)
(* The state file on disk.  A serialised document takes FileLen chunks;    *)
(* a file holding fewer chunks of it is a truncated text that json.loads   *)
(* rejects.                                                                *)
(***************************************************************************)
whole_file == [exists |-> TRUE, readable |-> TRUE, len |-> FileLen]
NoTmp == [exists |-> FALSE, data |-> empty_state, len |-> 0]
NoContent == [data |-> empty_state, len |-> 0 - 1]
NoOp == [seq |-> 0, name |-> "none", job_id |-> NoJob, raised |-> FALSE,
         result |-> NoJob, doc |-> empty_state, stat |-> whole_file]

\* orca_safe_file.py:39-48   safe_read: the text of the file; the default (None)
\* when the file is missing or open/read raises
safe_read(data, stat) ==
    IF stat.exists /\ stat.readable
    THEN [data |-> data, len |-> stat.len]
    ELSE NoContent

\* orca_safe_file.py:50-59   safe_json_read: the default when safe_read gave
\* None or json.loads raises JSONDecodeError
safe_json_read_unguarded(data, stat, default) ==
    LET content == safe_read(data, stat) IN
    IF content = NoContent THEN [raised |-> FALSE, value |-> default]
    ELSE [raised |-> content.len # FileLen, value |-> content.data]
safe_json_read(data, stat, default) ==
    LET content == safe_read(data, stat) IN
    IF content = NoContent THEN [raised |-> FALSE, value |-> default]
    ELSE IF content.len = FileLen THEN [raised |-> FALSE, value |-> content.data]
    ELSE [raised |-> FALSE, value |-> default]

\* orca_state.py:29-37   _load_state
load_state(data, stat) == safe_json_read(data, stat, empty_state)

\* orca_state.py:14, 59   threading.Lock: acquirable only when no thread holds it
lock_available_unguarded(holder) == TRUE
lock_available(holder) == holder = NoThread

(***************************************************************************)
(* State.                                                                  *)
(***************************************************************************)
VARIABLES
    state_file,         \* the persisted document (pipeline_state.json)
    lock,               \* StateStore.lock: the thread holding it, or NoThread
    caller_pc,          \* SpecDequeue: position of each concurrent caller
    caller_state,       \* SpecDequeue: the document a caller loaded
    caller_result,      \* SpecDequeue: what get_next_job returned to a caller
    depth,              \* SpecDequeue: queue depth D at the start
    now,                \* wall clock, in seconds
    drops,              \* files dropped into the input directory so far
    input_dir,          \* stems of the .xyz files in paths.input_dir
    waiting_dir,        \* files in paths.waiting_dir, as <<stem, suffix>>
    events,             \* `created` events queued for the observer thread
    scan_list,          \* process_existing_files: files globbed, not yet handled
    error_txt,          \* products/failed/<molecule>/error.txt, by molecule
    pipeline_running,   \* ORCAPipeline.running
    observer_on,        \* the watchdog observer is started
    jm_running,         \* JobManager.running
    executor_shutdown,  \* ThreadPoolExecutor.shutdown was called
    main_pc,            \* position of the thread in ORCAPipeline.start / stop
    ctl_pc,             \* position of the job thread in process_jobs
    ctl_job,            \* process_jobs: (job_id, job_info) got, not yet submitted
    futures,            \* process_jobs: the local list `futures`, as task numbers
    tasks,              \* every _execute_job call submitted to the executor
    file_stat,          \* pipeline_state.json on disk: exists, readable, chunks held
    tmp,                \* the temporary file of the atomic_write in progress
    write_pc,           \* position of the thread inside StateStore / atomic_write
    pending,            \* the document handed to _save_state, not yet on disk
    op,                 \* the last StateStore call made: name, arguments, result
    notifier,           \* Notifier: completion_count, last_notification, mails sent
    work_dirs,          \* the job directories that exist under paths.working_dir
    boot                \* fixed at process start: what the engine will do with each
                        \* attempt, and the ids found in `running`

store_vars == <<state_file, lock>>
caller_vars == <<caller_pc, caller_state, caller_result, depth>>
intake_vars == <<drops, input_dir, events, scan_list, observer_on>>
sched_vars == <<ctl_pc, ctl_job, futures, tasks, jm_running, executor_shutdown,
                pipeline_running, main_pc, error_txt>>
fs_vars == <<file_stat, tmp, write_pc, pending, op>>
aux_vars == <<notifier, work_dirs, boot>>
vars == <<state_file, lock, caller_pc, caller_state, caller_result, depth, now,
          drops, input_dir, waiting_dir, events, scan_list, error_txt,
          pipeline_running, observer_on, jm_running, executor_shutdown,
          main_pc, ctl_pc, ctl_job, futures, tasks,
          file_stat, tmp, write_pc, pending, op, notifier, work_dirs, boot>>

Callers == 1..NumCallers

\* the i-th job of a queue of distinct jobs: one subject, distinct creation seconds
pool_job(i) == [job_id |-> make_job_id("A", i), info |-> make_job_info("A")]

(***************************************************************************)
(* SpecDequeue: NumCallers threads call StateStore.get_next_job at once    *)
(* against a queue of depth D < NumCallers.  The call is split at the      *)
(* points where another thread can run: lock acquisition, _load_state,     *)
(* modification with _save_state, lock release.                            *)
(***************************************************************************)
\* the state file is whole on disk and no StateStore call is being followed
fs_idle ==
    /\ file_stat = whole_file /\ tmp = NoTmp /\ write_pc = "none"
    /\ pending = empty_state /\ op = NoOp

\* a fresh Notifier, an empty working area
aux_idle == notifier = fresh_notifier /\ work_dirs = {} /\ boot = any_engine

idle_rest ==
    /\ aux_idle
    /\ now = 0 /\ drops = 0 /\ input_dir = {} /\ waiting_dir = {}
    /\ events = <<>> /\ scan_list = {} /\ error_txt = <<>>
    /\ pipeline_running = FALSE /\ observer_on = FALSE /\ jm_running = FALSE
    /\ executor_shutdown = FALSE /\ main_pc = "none" /\ ctl_pc = "none"
    /\ ctl_job = NoJob /\ futures = <<>> /\ tasks = <<>>

InitDequeue ==
    /\ depth \in 0..(NumCallers - 1)
    /\ state_file = [empty_state EXCEPT !.queued = [i \in 1..depth |-> pool_job(i)]]
    /\ lock = NoThread
    /\ caller_pc = [c \in Callers |-> "call"]
    /\ caller_state = [c \in Callers |-> empty_state]
    /\ caller_result = [c \in Callers |-> NoJob]
    /\ idle_rest
    /\ fs_idle

\* orca_state.py:59   with self.lock:
CallerAcquire(c) ==
    /\ caller_pc[c] = "call"
    /\ lock_available(lock)
    /\ lock' = c
    /\ caller_pc' = [caller_pc EXCEPT ![c] = "locked"]
    /\ UNCHANGED <<state_file, caller_state, caller_result>>

\* orca_state.py:60   state = self._load_state()
CallerLoad(c) ==
    /\ caller_pc[c] = "locked"
    /\ caller_state' = [caller_state EXCEPT ![c] = state_file]
    /\ caller_pc' = [caller_pc EXCEPT ![c] = "loaded"]
    /\ UNCHANGED <<state_file, lock, caller_result>>

\* orca_state.py:61-70   pop, insert into running, _save_state, return value
CallerSave(c) ==
    /\ caller_pc[c] = "loaded"
    /\ LET r == get_next_job(caller_state[c]) IN
        /\ state_file' = IF r.job_id # NoJob THEN r.state ELSE state_file
        /\ caller_result' = [caller_result EXCEPT ![c] = r.job_id]
    /\ caller_pc' = [caller_pc EXCEPT ![c] = "return"]
    /\ UNCHANGED <<lock, caller_state>>

\* orca_state.py:59   leaving the with block releases the lock
CallerRelease(c) ==
    /\ caller_pc[c] = "return"
    /\ lock' = NoThread
    /\ caller_pc' = [caller_pc EXCEPT ![c] = "done"]
    /\ UNCHANGED <<state_file, caller_state, caller_result>>

NextDequeue ==
    \E c \in Callers :
        /\ \/ CallerAcquire(c)
           \/ CallerLoad(c)
           \/ CallerSave(c)
           \/ CallerRelease(c)
        /\ UNCHANGED <<depth, now, waiting_dir, intake_vars, sched_vars, fs_vars,
                       aux_vars>>

SpecDequeue == InitDequeue /\ [][NextDequeue]_vars

(***************************************************************************)
(* JobManager: classification and policy decisions.                        *)
(***************************************************************************)
\* what one engine run can end in: the verdict of parse_orca_output on the
\* artifact: success (with or without an extractable final geometry),
\* incomplete, recoverable, fatal (an error termination classified fatal, or
\* no artifact found); or subprocess.run raising TimeoutExpired
Outcomes == {"success_geom", "success_nogeom", "incomplete", "recoverable",
             "fatal", "timeout"}

is_success(outcome) == outcome \in {"success_geom", "success_nogeom"}

\* orca_job_manager.py:96-110 with orca_output_utils.py:27-66: the error_type
\* handed to _handle_failure
error_type_of(outcome) ==
    CASE outcome = "incomplete" -> "incomplete"
      [] outcome = "recoverable" -> "recoverable"
      [] outcome = "fatal" -> "fatal"
      [] outcome = "timeout" -> "fatal"
      [] OTHER -> "none"

\* orca_job_manager.py:163   error_type == 'incomplete' and retry_count < self.max_retries
should_retry_any_error(error_type, retry_count) == retry_count < max_retries
should_retry(error_type, retry_count) ==
    error_type = "incomplete" /\ retry_count < max_retries

\* orca_job_manager.py:145   if calc_type == 'opt':
chains_any_kind(calc_type) == TRUE
chains(calc_type) == calc_type = "opt"

\* orca_job_manager.py:57   if len(futures) < self.max_parallel:
may_admit_one_more(n) == n <= max_parallel
may_admit(n) == n < max_parallel

(***************************************************************************)
(* Worker pool: one entry of `tasks` per executor.submit(_execute_job).    *)
(***************************************************************************)
TaskIds == 1..Len(tasks)

\* Future.done(): the call returned or raised
finished(t) == tasks[t].pc \in {"done", "raised"}

\* tasks a pool thread is executing
active == {t \in TaskIds : tasks[t].pc \notin {"pending", "done", "raised"}}

inp_file(job_info) == <<job_info.molecule_name, "inp">>
xyz_file(job_info) == <<job_info.molecule_name, "xyz">>

set_pc(t, pc) == [tasks EXCEPT ![t].pc = pc]

\* orca_job_manager.py:89   working_dir / "<molecule>_<calc_type>_<YYYYmmdd_HHMMSS>"
job_work_dir(job_info, t) == <<job_info.molecule_name, job_info.calc_type, t>>

\* the engine results of the scenario "A is incomplete once, then succeeds;
\* every other job succeeds"
scenario_outcomes(molecule_name, attempt) ==
    IF molecule_name = "A" /\ attempt = 0
    THEN {"incomplete"}
    ELSE {"success_geom", "success_nogeom"}

\* what the engine run of a task can end in
engine_outcomes(task) ==
    IF boot.script = "any"
    THEN Outcomes
    ELSE scenario_outcomes(task.job_info.molecule_name, task.retry_count)

\* orca_job_manager.py:39-43 (max_workers) and 80-93: a free pool thread takes
\* the task, reads retry_count, creates the working directory and copies the
\* input payload; shutil.copy raises, outside the try, when the payload is gone
WorkerStart(t) ==
    /\ tasks[t].pc = "pending"
    /\ Cardinality(active) < max_parallel
    /\ tasks' = [tasks EXCEPT ![t].pc = IF inp_file(tasks[t].job_info) \in waiting_dir
                                        THEN "running" ELSE "raised",
                              ![t].retry_count = tasks[t].job_info.retry_count,
                              ![t].work_dir = job_work_dir(tasks[t].job_info, now)]
    /\ work_dirs' = work_dirs \cup {job_work_dir(tasks[t].job_info, now)}
    /\ UNCHANGED <<state_file, waiting_dir, error_txt, notifier>>

\* orca_job_manager.py:89-93: the directory is made and shutil.copy raises
\* OSError (disk full, permission denied, payload unreadable); the call stands
\* before the try of line 95, so the exception leaves _execute_job
WorkerStartRaises(t) ==
    /\ tasks[t].pc = "pending"
    /\ Cardinality(active) < max_parallel
    /\ tasks' = [tasks EXCEPT ![t].pc = "raised",
                              ![t].retry_count = tasks[t].job_info.retry_count,
                              ![t].work_dir = job_work_dir(tasks[t].job_info, now)]
    /\ work_dirs' = work_dirs \cup {job_work_dir(tasks[t].job_info, now)}
    /\ UNCHANGED <<state_file, waiting_dir, error_txt, notifier>>

\* orca_job_manager.py:95-110: _run_orca, find_output_file, parse_orca_output,
\* and the branch to _handle_success or _handle_failure (whose first lines,
\* 126-131 and 155-163, only read their arguments)
WorkerRun(t) ==
    /\ tasks[t].pc = "running"
    /\ \E outcome \in engine_outcomes(tasks[t]) :
        tasks' = [tasks EXCEPT
            ![t].outcome = outcome,
            ![t].error_type = error_type_of(outcome),
            ![t].pc = IF is_success(outcome) THEN "hs_mark"
                      ELSE IF should_retry(error_type_of(outcome), tasks[t].retry_count)
                           THEN "hf_add" ELSE "hf_record"]
    /\ UNCHANGED <<state_file, waiting_dir, error_txt, notifier, work_dirs>>

\* orca_job_manager.py:105-110: an exception raised under the try of line 95
\* is caught and _handle_failure is called with error_type "fatal"; an
\* exception raised by that call leaves _execute_job
after_raise(task) ==
    IF task.in_except
    THEN [task EXCEPT !.pc = "raised"]
    ELSE [task EXCEPT !.pc = "hf_record", !.error_type = "fatal", !.in_except = TRUE]

\* orca_job_manager.py:133-143   archive into products/success/<molecule>, plot,
\* self.state.mark_completed(job_id, ...), self.notifier.notify_completion(...)
HS_MarkCompleted(t) ==
    /\ tasks[t].pc = "hs_mark"
    /\ state_file' = mark_completed(state_file, tasks[t].job_id)
    /\ \E sent_ok \in BOOLEAN : notifier' = notify_completion(notifier, now, sent_ok)
    /\ tasks' = [tasks EXCEPT
           ![t].pc = IF chains(tasks[t].job_info.calc_type) THEN "hs_chain" ELSE "hs_cleanup",
           ![t].side = @ \cup {"mark_completed", "notify_completion"}]
    /\ UNCHANGED <<waiting_dir, error_txt, work_dirs>>

\* orca_job_manager.py:133-140   ensure_directory, shutil.copy of the archive or
\* create_energy_plot raises
HS_ArchiveRaises(t) ==
    /\ tasks[t].pc = "hs_mark"
    /\ tasks' = [tasks EXCEPT ![t] = after_raise(@)]
    /\ UNCHANGED <<state_file, waiting_dir, error_txt, notifier, work_dirs>>

\* orca_job_manager.py:199-218   _chain_frequency_calculation
HS_Chain(t) ==
    /\ tasks[t].pc = "hs_chain"
    /\ waiting_dir' = IF tasks[t].outcome = "success_geom"
                      THEN waiting_dir \cup {<<freq_stem(tasks[t].job_info.molecule_name), "xyz">>}
                      ELSE waiting_dir
    /\ tasks' = set_pc(t, "hs_cleanup")
    /\ UNCHANGED <<state_file, error_txt, notifier, work_dirs>>

\* orca_job_manager.py:214-216   open(freq_xyz_file, 'w') or the write raises
\* OSError; nothing in _chain_frequency_calculation or _handle_success catches it
HS_ChainRaises(t) ==
    /\ tasks[t].pc = "hs_chain"
    /\ tasks[t].outcome = "success_geom"
    /\ tasks' = [tasks EXCEPT ![t] = after_raise(@)]
    /\ UNCHANGED <<state_file, waiting_dir, error_txt, notifier, work_dirs>>

\* orca_job_manager.py:220-233   _cleanup_waiting_files
cleanup_waiting_files(dir, job_info) == dir \ {inp_file(job_info), xyz_file(job_info)}

\* orca_job_manager.py:148-153   cleanup of the waiting files, rmtree of the work dir
HS_Cleanup(t) ==
    /\ tasks[t].pc = "hs_cleanup"
    /\ waiting_dir' = cleanup_waiting_files(waiting_dir, tasks[t].job_info)
    /\ work_dirs' = work_dirs \ {tasks[t].work_dir}
    /\ tasks' = set_pc(t, "done")
    /\ UNCHANGED <<state_file, error_txt, notifier>>

\* orca_job_manager.py:165-166   retry_count + 1, self.state.add_job(job_id, job_info)
HF_AddJob(t) ==
    /\ tasks[t].pc = "hf_add"
    /\ LET info == [tasks[t].job_info EXCEPT !.retry_count = tasks[t].retry_count + 1] IN
        /\ state_file' = add_job(state_file, tasks[t].job_id, info)
        /\ tasks' = [tasks EXCEPT ![t].job_info = info, ![t].pc = "hf_clear"]
    /\ UNCHANGED <<waiting_dir, error_txt, notifier, work_dirs>>

\* orca_job_manager.py:167 and 185-188   self.state.clear_running(job_id), rmtree
HF_ClearRunning(t) ==
    /\ tasks[t].pc = "hf_clear"
    /\ state_file' = clear_running(state_file, tasks[t].job_id)
    /\ work_dirs' = work_dirs \ {tasks[t].work_dir}
    /\ tasks' = set_pc(t, "done")
    /\ UNCHANGED <<waiting_dir, error_txt, notifier>>

\* orca_job_manager.py:169-178   archive into products/failed/<molecule>, error.txt
HF_ErrorRecord(t) ==
    /\ tasks[t].pc = "hf_record"
    /\ error_txt' = dict_put(error_txt, tasks[t].job_info.molecule_name,
                             [error_type |-> tasks[t].error_type,
                              retry_count |-> tasks[t].retry_count])
    /\ tasks' = [tasks EXCEPT ![t].pc = "hf_mark", ![t].side = @ \cup {"error_record"}]
    /\ UNCHANGED <<state_file, waiting_dir, notifier, work_dirs>>

\* orca_job_manager.py:169-178   ensure_directory, shutil.copy of the archive or
\* open(error_file, 'w') raises OSError
HF_ErrorRecordRaises(t) ==
    /\ tasks[t].pc = "hf_record"
    /\ tasks' = [tasks EXCEPT ![t] = after_raise(@)]
    /\ UNCHANGED <<state_file, waiting_dir, error_txt, notifier, work_dirs>>

\* orca_job_manager.py:180-181   self.state.mark_failed(job_id, error_msg),
\* self.notifier.notify_error(...)
HF_MarkFailed(t) ==
    /\ tasks[t].pc = "hf_mark"
    /\ state_file' = mark_failed(state_file, tasks[t].job_id, tasks[t].error_type)
    /\ notifier' = notify_error(notifier, tasks[t].job_id)
    /\ tasks' = [tasks EXCEPT ![t].pc = "hf_cleanup", ![t].side = @ \cup {"notify_error"}]
    /\ UNCHANGED <<waiting_dir, error_txt, work_dirs>>

\* orca_job_manager.py:183-188   cleanup of the waiting files, rmtree of the work dir
HF_Cleanup(t) ==
    /\ tasks[t].pc = "hf_cleanup"
    /\ waiting_dir' = cleanup_waiting_files(waiting_dir, tasks[t].job_info)
    /\ work_dirs' = work_dirs \ {tasks[t].work_dir}
    /\ tasks' = set_pc(t, "done")
    /\ UNCHANGED <<state_file, error_txt, notifier>>

(***************************************************************************)
(* Control loop: ORCAPipeline._job_processing_loop calling                 *)
(* JobManager.process_jobs on the job thread.                              *)
(***************************************************************************)
ctl_rest == <<lock, caller_vars, fs_vars, aux_vars, now, intake_vars, waiting_dir, error_txt,
              jm_running, executor_shutdown, pipeline_running, main_pc>>

\* orca_main.py:268-276   while self.running: if queue_size > 0: process_jobs()
\* orca_job_manager.py:54   futures = []
CtlPoll ==
    /\ ctl_pc = "poll"
    /\ ~pipeline_running \/ get_queue_size(state_file) > 0
    /\ ctl_pc' = IF ~pipeline_running THEN "exited" ELSE "while"
    /\ futures' = <<>>
    /\ UNCHANGED <<state_file, ctl_job, tasks>>

\* orca_job_manager.py:56-57   while self.running: if len(futures) < max_parallel:
CtlWhile ==
    /\ ctl_pc = "while"
    /\ ctl_pc' = IF ~jm_running THEN "drain"
                 ELSE IF may_admit(Len(futures)) THEN "admit" ELSE "collect"
    /\ UNCHANGED <<state_file, ctl_job, futures, tasks>>

\* orca_job_manager.py:58-64   get_next_job; elif not futures: break
CtlAdmit ==
    /\ ctl_pc = "admit"
    /\ LET r == get_next_job(state_file) IN
        /\ state_file' = r.state
        /\ ctl_job' = IF r.job_id # NoJob THEN <<r.job_id, r.info>> ELSE NoJob
        /\ ctl_pc' = IF r.job_id # NoJob THEN "submit"
                     ELSE IF futures = <<>> THEN "drain" ELSE "collect"
    /\ UNCHANGED <<futures, tasks>>

new_task(job_id, job_info) ==
    [job_id |-> job_id, job_info |-> job_info, retry_count |-> 0,
     pc |-> "pending", outcome |-> "none", error_type |-> "none",
     work_dir |-> NoJob, side |-> {}, in_except |-> FALSE]

\* orca_job_manager.py:61-62   future = self.executor.submit(...); futures.append
\* submit raises RuntimeError once the executor is shut down; process_jobs
\* does not catch it, _job_processing_loop does (orca_main.py:278-280)
CtlSubmit ==
    /\ ctl_pc = "submit"
    /\ IF executor_shutdown
       THEN /\ ctl_pc' = "poll"
            /\ futures' = <<>>
            /\ UNCHANGED tasks
       ELSE /\ tasks' = Append(tasks, new_task(ctl_job[1], ctl_job[2]))
            /\ futures' = Append(futures, Len(tasks) + 1)
            /\ ctl_pc' = "collect"
    /\ ctl_job' = NoJob
    /\ UNCHANGED state_file

\* orca_job_manager.py:69-72 and 75-78   try: future.result() except Exception:
\* logger.error(...): what the task raised is logged and goes no further
result_reraised_when_raised(t) == tasks[t].pc = "raised"
result_reraised(t) == FALSE

\* orca_job_manager.py:66-72   done futures are removed and their result read;
\* an exception leaving the loop would end process_jobs and be caught by
\* _job_processing_loop (orca_main.py:278-280), which polls again
CtlCollect ==
    /\ ctl_pc = "collect"
    /\ IF \E i \in 1..Len(futures) : finished(futures[i]) /\ result_reraised(futures[i])
       THEN /\ futures' = <<>>
            /\ ctl_pc' = "poll"
       ELSE /\ futures' = SelectSeq(futures, LAMBDA t : ~finished(t))
            /\ ctl_pc' = "while"
    /\ UNCHANGED <<state_file, ctl_job, tasks>>

\* orca_job_manager.py:74-78   for future in as_completed(futures), then return;
\* as_completed yields the futures as they finish
CtlDrain ==
    /\ ctl_pc = "drain"
    /\ \/ \A i \in 1..Len(futures) : finished(futures[i])
       \/ \E i \in 1..Len(futures) : finished(futures[i]) /\ result_reraised(futures[i])
    /\ futures' = <<>>
    /\ ctl_pc' = "poll"
    /\ UNCHANGED <<state_file, ctl_job, tasks>>

(***************************************************************************)
(* ORCAPipeline.stop on the main thread.                                   *)
(***************************************************************************)
main_rest == <<state_file, lock, caller_vars, fs_vars, aux_vars, now, drops, input_dir, scan_list,
               waiting_dir, error_txt, ctl_pc, ctl_job, futures, tasks>>

\* orca_main.py:286-289   self.running = False; observer.stop(); observer.join()
MainStopRequest ==
    /\ main_pc = "run"
    /\ pipeline_running' = FALSE
    /\ observer_on' = FALSE
    /\ events' = <<>>
    /\ main_pc' = "jm_stop"
    /\ UNCHANGED <<jm_running, executor_shutdown>>

\* orca_job_manager.py:47   self.running = False
MainJMStop ==
    /\ main_pc = "jm_stop"
    /\ jm_running' = FALSE
    /\ main_pc' = "shutdown"
    /\ UNCHANGED <<pipeline_running, observer_on, events, executor_shutdown>>

\* orca_job_manager.py:48-49   self.executor.shutdown(wait=True): no new submit
MainShutdown ==
    /\ main_pc = "shutdown"
    /\ executor_shutdown' = TRUE
    /\ main_pc' = "wait"
    /\ UNCHANGED <<pipeline_running, observer_on, events, jm_running>>

\* orca_job_manager.py:49 and orca_main.py:293-294: shutdown returns when every
\* submitted task has finished; job_thread.join(timeout=10) returns either way
MainWait ==
    /\ main_pc = "wait"
    /\ \A t \in TaskIds : finished(t)
    /\ main_pc' = "stopped"
    /\ UNCHANGED <<pipeline_running, observer_on, events, jm_running, executor_shutdown>>

(***************************************************************************)
(* Spec: the scheduler (job thread and pool threads) running on a queue of *)
(* MaxJobs or fewer jobs that the intake created for distinct geometry     *)
(* files.                                                                  *)
(***************************************************************************)
\* sequences of distinct stems, of length 1..MaxJobs
InitQueues ==
    {q \in UNION {[1..n -> Molecules] : n \in 1..MaxJobs} :
        \A i, j \in 1..Len(q) : i # j => q[i] # q[j]}

started ==
    /\ pipeline_running = TRUE /\ observer_on = TRUE /\ jm_running = TRUE
    /\ executor_shutdown = FALSE /\ main_pc = "run" /\ ctl_pc = "poll"
    /\ ctl_job = NoJob /\ futures = <<>> /\ tasks = <<>>

idle_callers ==
    /\ lock = NoThread /\ depth = 0
    /\ caller_pc = [c \in Callers |-> "none"]
    /\ caller_state = [c \in Callers |-> empty_state]
    /\ caller_result = [c \in Callers |-> NoJob]

Init ==
    /\ \E q \in InitQueues :
        /\ state_file = [empty_state EXCEPT !.queued =
               [i \in 1..Len(q) |-> [job_id |-> make_job_id(q[i], 0),
                                     info |-> make_job_info(q[i])]]]
        /\ waiting_dir = UNION {{<<q[i], "inp">>, <<q[i], "xyz">>} : i \in 1..Len(q)}
    /\ now = 0 /\ drops = 0 /\ input_dir = {} /\ events = <<>> /\ scan_list = {}
    /\ error_txt = <<>>
    /\ started
    /\ idle_callers
    /\ fs_idle
    /\ aux_idle

worker_rest == <<lock, caller_vars, fs_vars, boot, now, intake_vars, ctl_pc, ctl_job, futures,
                 jm_running, executor_shutdown, pipeline_running, main_pc>>

\* the job thread and the pool threads
NextScheduler ==
    \/ \E t \in TaskIds : WorkerStart(t) /\ UNCHANGED worker_rest
    \/ \E t \in TaskIds : WorkerRun(t) /\ UNCHANGED worker_rest
    \/ \E t \in TaskIds : HS_MarkCompleted(t) /\ UNCHANGED worker_rest
    \/ \E t \in TaskIds : HS_Chain(t) /\ UNCHANGED worker_rest
    \/ \E t \in TaskIds : HS_Cleanup(t) /\ UNCHANGED worker_rest
    \/ \E t \in TaskIds : HF_AddJob(t) /\ UNCHANGED worker_rest
    \/ \E t \in TaskIds : HF_ClearRunning(t) /\ UNCHANGED worker_rest
    \/ \E t \in TaskIds : HF_ErrorRecord(t) /\ UNCHANGED worker_rest
    \/ \E t \in TaskIds : HF_MarkFailed(t) /\ UNCHANGED worker_rest
    \/ \E t \in TaskIds : HF_Cleanup(t) /\ UNCHANGED worker_rest
    \/ CtlPoll /\ UNCHANGED ctl_rest
    \/ CtlWhile /\ UNCHANGED ctl_rest
    \/ CtlAdmit /\ UNCHANGED ctl_rest
    \/ CtlSubmit /\ UNCHANGED ctl_rest
    \/ CtlCollect /\ UNCHANGED ctl_rest
    \/ CtlDrain /\ UNCHANGED ctl_rest

Next == NextScheduler

Spec == Init /\ [][Next]_vars

(***************************************************************************)
(* SpecStop: the same scheduler with ORCAPipeline.stop called at any       *)
(* moment from the main thread.                                            *)
(***************************************************************************)
NextStop ==
    \/ NextScheduler
    \/ MainStopRequest /\ UNCHANGED main_rest
    \/ MainJMStop /\ UNCHANGED main_rest
    \/ MainShutdown /\ UNCHANGED main_rest
    \/ MainWait /\ UNCHANGED main_rest

SpecStop == Init /\ [][NextStop]_vars

(***************************************************************************)
(* SpecFaults: the scheduler of Spec where creating the working directory  *)
(* or copying the input payload can fail.                                  *)
(***************************************************************************)
NextFaults ==
    \/ NextScheduler
    \/ \E t \in TaskIds : WorkerStartRaises(t) /\ UNCHANGED worker_rest

SpecFaults == Init /\ [][NextFaults]_vars

(***************************************************************************)
(* SpecPipeline: the pipeline from construction on a fresh state file,     *)
(* while it is not stopped: startup scan, watcher, scheduler.  Users drop  *)
(* at most MaxDrops geometry files into the input directory.               *)
(***************************************************************************)
\* orca_main.py:37-79   process_xyz_file, under self.processing_lock: nothing
\* happens when the file is gone; otherwise <stem>.inp is written into the
\* waiting directory, the .xyz file is moved there and the job is enqueued.
\* The files users drop hold a geometry that _parse_xyz accepts.
\* orca_main.py:43   xyz_path.exists()
xyz_exists_unchecked(m) == TRUE

xyz_exists(m) == m \in input_dir

process_xyz_file(m) ==
    IF ~xyz_exists(m)
    THEN UNCHANGED <<input_dir, waiting_dir, state_file>>
    ELSE /\ waiting_dir' = waiting_dir \cup {<<m, "inp">>, <<m, "xyz">>}
         /\ input_dir' = input_dir \ {m}
         /\ state_file' = add_job(state_file, make_job_id(m, now), make_job_info(m))

intake_rest == <<lock, caller_vars, fs_vars, aux_vars, now, error_txt, ctl_job, futures, tasks,
                 executor_shutdown>>

\* a user creates <m>.xyz in the input directory; the started observer
\* (orca_main.py:208-209, watching input_dir only) queues a `created` event
DropFile(m) ==
    /\ drops < MaxDrops
    /\ m \notin input_dir
    /\ drops' = drops + 1
    /\ input_dir' = input_dir \cup {m}
    /\ events' = IF observer_on THEN Append(events, m) ELSE events
    /\ UNCHANGED <<state_file, waiting_dir, scan_list, observer_on, main_pc, ctl_pc,
                   jm_running, pipeline_running>>

\* orca_main.py:231-233   xyz_files = list(input_dir.glob('*.xyz'))
MainGlob ==
    /\ main_pc = "start"
    /\ scan_list' = input_dir
    /\ main_pc' = "scan"
    /\ UNCHANGED <<state_file, waiting_dir, drops, input_dir, events, observer_on,
                   ctl_pc, jm_running, pipeline_running>>

\* orca_main.py:238-240   for xyz_file in xyz_files: process_xyz_file(xyz_file)
MainScanFile(m) ==
    /\ main_pc = "scan"
    /\ m \in scan_list
    /\ process_xyz_file(m)
    /\ scan_list' = scan_list \ {m}
    /\ UNCHANGED <<drops, events, observer_on, main_pc, ctl_pc, jm_running,
                   pipeline_running>>

\* orca_main.py:252-260   observer.start(), job_manager.start(), job thread
MainStart ==
    /\ main_pc = "scan"
    /\ scan_list = {}
    /\ observer_on' = TRUE
    /\ jm_running' = TRUE
    /\ pipeline_running' = TRUE
    /\ ctl_pc' = "poll"
    /\ main_pc' = "run"
    /\ UNCHANGED <<state_file, waiting_dir, drops, input_dir, events, scan_list>>

\* orca_main.py:25-35   on_created on the observer thread
WatchEvent ==
    /\ observer_on
    /\ events # <<>>
    /\ process_xyz_file(Head(events))
    /\ events' = Tail(events)
    /\ UNCHANGED <<drops, scan_list, observer_on, main_pc, ctl_pc, jm_running,
                   pipeline_running>>

\* the wall clock passes a second boundary
Tick ==
    /\ now < MaxTime
    /\ now' = now + 1
    /\ UNCHANGED <<state_file, lock, caller_vars, fs_vars, aux_vars, intake_vars, waiting_dir,
                   sched_vars>>

\* the pipeline before start(): any files may wait in the input directory
InitIntake ==
    /\ state_file = empty_state
    /\ waiting_dir = {}
    /\ input_dir \in SUBSET Molecules
    /\ drops = Cardinality(input_dir)
    /\ now = 0 /\ events = <<>> /\ scan_list = {} /\ error_txt = <<>>
    /\ pipeline_running = FALSE /\ observer_on = FALSE /\ jm_running = FALSE
    /\ executor_shutdown = FALSE /\ main_pc = "start" /\ ctl_pc = "none"
    /\ ctl_job = NoJob /\ futures = <<>> /\ tasks = <<>>
    /\ idle_callers
    /\ fs_idle
    /\ aux_idle

InitPipeline == InitIntake /\ drops <= MaxDrops

NextPipeline ==
    \/ NextScheduler
    \/ \E m \in Molecules : DropFile(m) /\ UNCHANGED intake_rest
    \/ MainGlob /\ UNCHANGED intake_rest
    \/ \E m \in Molecules : MainScanFile(m) /\ UNCHANGED intake_rest
    \/ MainStart /\ UNCHANGED intake_rest
    \/ WatchEvent /\ UNCHANGED intake_rest
    \/ Tick

SpecPipeline == InitPipeline /\ [][NextPipeline]_vars

(***************************************************************************)
(* SpecRedrop: SpecPipeline where, after the MaxDrops files, a user drops  *)
(* one more geometry file under a name the pipeline has taken in before.   *)
(***************************************************************************)
\* stems of the jobs the document holds (job_id starts with the stem,
\* orca_main.py:47, 65)
stems_taken_in ==
    {id[1] : id \in queued_ids(state_file) \cup running_ids(state_file)}
        \cup {state_file.completed[i].job_id[1] : i \in 1..Len(state_file.completed)}
        \cup {state_file.failed[i].job_id[1] : i \in 1..Len(state_file.failed)}

DropAgain(m) ==
    /\ drops = MaxDrops
    /\ m \in stems_taken_in
    /\ m \notin input_dir
    /\ drops' = drops + 1
    /\ input_dir' = input_dir \cup {m}
    /\ events' = IF observer_on THEN Append(events, m) ELSE events
    /\ UNCHANGED <<state_file, waiting_dir, scan_list, observer_on, main_pc, ctl_pc,
                   jm_running, pipeline_running>>

NextRedrop ==
    \/ NextPipeline
    \/ \E m \in Molecules : DropAgain(m) /\ UNCHANGED intake_rest

SpecRedrop == InitPipeline /\ [][NextRedrop]_vars

(***************************************************************************)
(* SpecIntake: the intake alone (startup scan, observer, handler), where   *)
(* the observer can report `created` more than once for a file that is     *)
(* still in the input directory, and a user can drop a file under a name   *)
(* taken in before.                                                        *)
(***************************************************************************)
MaxEvents == 3

\* the observer reports `created` again for a file that waits in the input
\* directory (the writer re-creates it); on_created (orca_main.py:25-35) is
\* called once per report
DuplicateEvent(m) ==
    /\ observer_on
    /\ m \in input_dir
    /\ Len(events) < MaxEvents
    /\ events' = Append(events, m)
    /\ UNCHANGED <<state_file, waiting_dir, drops, input_dir, scan_list, observer_on,
                   main_pc, ctl_pc, jm_running, pipeline_running>>

NextIntake ==
    \/ \E m \in Molecules : DropFile(m) /\ UNCHANGED intake_rest
    \/ MainGlob /\ UNCHANGED intake_rest
    \/ \E m \in Molecules : MainScanFile(m) /\ UNCHANGED intake_rest
    \/ MainStart /\ UNCHANGED intake_rest
    \/ WatchEvent /\ UNCHANGED intake_rest
    \/ \E m \in Molecules : DuplicateEvent(m) /\ UNCHANGED intake_rest
    \/ \E m \in Molecules : DropAgain(m) /\ UNCHANGED intake_rest
    \/ Tick

SpecIntake == InitIntake /\ [][NextIntake]_vars

(***************************************************************************)
(* StateStore calls as seen from the file system.                          *)
(***************************************************************************)
JobIds == {make_job_id(m, t) : m \in Molecules, t \in 0..MaxTime}

\* the StateStore methods that may write, with their job_id argument
StoreCalls ==
    [name : {"add_job", "mark_completed", "mark_failed", "clear_running"}, job_id : JobIds]
        \cup {[name |-> "get_next_job", job_id |-> NoJob]}

\* orca_state.py:44-100, 114-120: the document the method computes from the
\* document it loaded
store_call(name, job_id, state) ==
    CASE name = "add_job" -> add_job(state, job_id, make_job_info(job_id[1]))
      [] name = "get_next_job" -> get_next_job(state).state
      [] name = "mark_completed" -> mark_completed(state, job_id)
      [] name = "mark_failed" -> mark_failed(state, job_id, "fatal")
      [] name = "clear_running" -> clear_running(state, job_id)

\* what the method returns to its caller: get_next_job returns the job
store_result(name, state) ==
    IF name = "get_next_job" THEN get_next_job(state).job_id ELSE NoJob

\* the record of a call: what it loaded (and what stat of the file it met)
call_record(c, r) ==
    [seq |-> op.seq + 1, name |-> c.name, job_id |-> c.job_id, raised |-> r.raised,
     result |-> IF r.raised THEN NoJob ELSE store_result(c.name, r.value),
     doc |-> r.value, stat |-> file_stat]

\* documents a running pipeline leaves on disk
SeedDocs ==
    LET q1 == add_job(empty_state, make_job_id("A", 0), make_job_info("A"))
        r1 == get_next_job(q1).state
        q2 == add_job(r1, make_job_id("A_freq", 0), make_job_info("A_freq"))
    IN {empty_state, q1, r1, q2}

fs_rest == <<lock, caller_vars, aux_vars, now, intake_vars, waiting_dir, sched_vars>>

(***************************************************************************)
(* SpecWrite: one thread at a time (StateStore.lock) makes StateStore      *)
(* calls that write; atomic_write is split at the points where the process *)
(* can be killed or the write can fail.                                    *)
(***************************************************************************)
\* orca_safe_file.py:14-26   the text goes to a NamedTemporaryFile of the same
\* directory, which shutil.move then renames onto the destination
atomic_write_in_place == "file"
atomic_write_target == "tmp"

InitWrite ==
    /\ state_file \in SeedDocs
    /\ file_stat = whole_file /\ tmp = NoTmp /\ write_pc = "idle"
    /\ pending = empty_state /\ op = NoOp
    /\ idle_rest
    /\ idle_callers

\* orca_state.py:44-120   a method loads the document, changes it and calls
\* _save_state (methods that find nothing to change do not write)
WCall ==
    /\ write_pc = "idle"
    /\ op.seq < MaxOps
    /\ \E c \in StoreCalls :
        LET r == load_state(state_file, file_stat)
            new == store_call(c.name, c.job_id, r.value) IN
        /\ new # r.value
        /\ pending' = new
        /\ op' = call_record(c, r)
    /\ write_pc' = "save"
    /\ UNCHANGED <<state_file, file_stat, tmp>>

\* orca_safe_file.py:14-21   NamedTemporaryFile(mode='w', dir=..., delete=False)
WCreateTmp ==
    /\ write_pc = "save"
    /\ IF atomic_write_target = "tmp"
       THEN /\ tmp' = [exists |-> TRUE, data |-> pending, len |-> 0]
            /\ UNCHANGED <<state_file, file_stat>>
       ELSE /\ state_file' = pending
            /\ file_stat' = [whole_file EXCEPT !.len = 0]
            /\ UNCHANGED tmp
    /\ write_pc' = "writing"
    /\ UNCHANGED <<pending, op>>

\* orca_safe_file.py:22   tmp_file.write(content): the text reaches the disk
\* chunk by chunk
WWrite ==
    /\ write_pc = "writing"
    /\ IF atomic_write_target = "tmp"
       THEN /\ tmp.len < FileLen
            /\ tmp' = [tmp EXCEPT !.len = @ + 1]
            /\ UNCHANGED file_stat
       ELSE /\ file_stat.len < FileLen
            /\ file_stat' = [file_stat EXCEPT !.len = @ + 1]
            /\ UNCHANGED tmp
    /\ UNCHANGED <<state_file, write_pc, pending, op>>

\* orca_safe_file.py:26-27   shutil.move(tmp_path, filepath); return True:
\* a rename inside one directory replaces the destination in one step
WMove ==
    /\ write_pc = "writing"
    /\ IF atomic_write_target = "tmp"
       THEN /\ tmp.len = FileLen
            /\ state_file' = tmp.data
            /\ file_stat' = whole_file
            /\ tmp' = NoTmp
       ELSE /\ file_stat.len = FileLen
            /\ UNCHANGED <<state_file, file_stat, tmp>>
    /\ write_pc' = "idle"
    /\ UNCHANGED <<pending, op>>

\* orca_safe_file.py:28-32   write or move raises: the temporary file is
\* unlinked and atomic_write returns False; orca_state.py:42 drops the value
\* and the method returns as after a successful write
WFail ==
    /\ write_pc = "writing"
    /\ tmp' = NoTmp
    /\ write_pc' = "idle"
    /\ UNCHANGED <<state_file, file_stat, pending, op>>

\* the process is killed; what is on disk stays
Crash ==
    /\ write_pc \in {"idle", "save", "writing"}
    /\ write_pc' = "crashed"
    /\ UNCHANGED <<state_file, file_stat, tmp, pending, op>>

\* orca_state.py:12-37   the next process constructs its StateStore (the file
\* exists) and reads the document; a temporary file left behind is not used
Restart ==
    /\ write_pc = "crashed"
    /\ LET r == load_state(state_file, file_stat) IN
        op' = [seq |-> op.seq, name |-> "read", job_id |-> NoJob, raised |-> r.raised,
               result |-> NoJob, doc |-> r.value, stat |-> file_stat]
    /\ write_pc' = "idle"
    /\ UNCHANGED <<state_file, file_stat, tmp, pending>>

NextWrite ==
    \/ WCall /\ UNCHANGED fs_rest
    \/ WCreateTmp /\ UNCHANGED fs_rest
    \/ WWrite /\ UNCHANGED fs_rest
    \/ WMove /\ UNCHANGED fs_rest
    \/ WFail /\ UNCHANGED fs_rest
    \/ Crash /\ UNCHANGED fs_rest
    \/ Restart /\ UNCHANGED fs_rest

SpecWrite == InitWrite /\ [][NextWrite]_vars

(***************************************************************************)
(* SpecStoreOps: a StateStore is constructed on a state file that is       *)
(* missing, truncated, unreadable or whole, and its methods are called in  *)
(* any order; each call is one step (it runs under StateStore.lock and its *)
(* write succeeds).                                                        *)
(***************************************************************************)
FileStats ==
    {whole_file,
     [exists |-> FALSE, readable |-> TRUE, len |-> 0],
     [exists |-> TRUE, readable |-> FALSE, len |-> FileLen]}
        \cup {[exists |-> TRUE, readable |-> TRUE, len |-> n] : n \in 0..(FileLen - 1)}

InitStoreOps ==
    /\ file_stat \in FileStats
    /\ state_file \in IF file_stat.exists THEN SeedDocs ELSE {empty_state}
    /\ tmp = NoTmp /\ write_pc = "new" /\ pending = empty_state /\ op = NoOp
    /\ idle_rest
    /\ idle_callers

\* orca_state.py:12-27   __init__ / _ensure_state_file
Construct ==
    /\ write_pc = "new"
    /\ IF ~file_stat.exists
       THEN /\ state_file' = empty_state
            /\ file_stat' = whole_file
       ELSE UNCHANGED <<state_file, file_stat>>
    /\ write_pc' = "idle"
    /\ UNCHANGED <<tmp, pending, op>>

\* orca_state.py:44-120   with self.lock: _load_state, change, _save_state
StoreCall(c) ==
    /\ write_pc = "idle"
    /\ op.seq < MaxOps
    /\ LET r == load_state(state_file, file_stat)
           new == store_call(c.name, c.job_id, r.value) IN
        /\ op' = call_record(c, r)
        /\ IF ~r.raised /\ new # r.value
           THEN /\ state_file' = new
                /\ file_stat' = whole_file
           ELSE UNCHANGED <<state_file, file_stat>>
    /\ UNCHANGED <<tmp, write_pc, pending>>

NextStoreOps ==
    \/ Construct /\ UNCHANGED fs_rest
    \/ \E c \in StoreCalls : StoreCall(c) /\ UNCHANGED fs_rest

SpecStoreOps == InitStoreOps /\ [][NextStoreOps]_vars

(***************************************************************************)
(* Properties.                                                             *)
(***************************************************************************)
completed_ids == {state_file.completed[i].job_id : i \in 1..Len(state_file.completed)}
failed_ids == {state_file.failed[i].job_id : i \in 1..Len(state_file.failed)}

callers_done == \A c \in Callers : caller_pc[c] = "done"
callers_served == {c \in Callers : caller_result[c] # NoJob}

\* C1: when NumCallers threads call get_next_job concurrently on a queue of
\* D distinct jobs (D < NumCallers), no job id is ever returned to two
\* callers, and once all calls have returned exactly D of them returned a
\* job and NumCallers - D returned (None, None).
C1_DequeueAtomic ==
    /\ \A c1, c2 \in callers_served :
           c1 # c2 => caller_result[c1] # caller_result[c2]
    /\ callers_done =>
           /\ Cardinality(callers_served) = depth
           /\ Cardinality(Callers \ callers_served) = NumCallers - depth
           /\ state_file.queued = <<>>
           /\ running_ids(state_file) = {caller_result[c] : c \in callers_served}

C1_Witness ==
    /\ callers_done
    /\ depth >= 2
    /\ Cardinality(callers_served) = depth
    /\ callers_served # Callers

\* C2: in every state of the persisted document a job id is in at most one
\* of `queued` and `running`.
C2_QueuedRunningDisjoint ==
    queued_ids(state_file) \cap running_ids(state_file) = {}

\* a finished attempt whose handling took the terminal failure branch
terminal_failure(k) ==
    /\ k.outcome # "none"
    /\ ~is_success(k.outcome)
    /\ ~(k.error_type = "incomplete" /\ k.retry_count < max_retries)

\* C3: every executed job's outcome is recorded: once an attempt that ended
\* with a success verdict has been handled the job is in `completed`, and
\* once an attempt that ended in a terminal failure has been handled the job
\* is in `failed`.
C3_OutcomeRecorded ==
    \A t \in TaskIds :
        tasks[t].pc = "done" =>
            /\ is_success(tasks[t].outcome) => tasks[t].job_id \in completed_ids
            /\ terminal_failure(tasks[t]) => tasks[t].job_id \in failed_ids

attempts_of(job_id) == {t \in TaskIds : tasks[t].job_id = job_id}

\* C4: a job whose attempts are all `incomplete` is executed max_retries + 1
\* times (requeued max_retries times) and, once the last attempt has been
\* handled, is in `failed` with retry_count = max_retries in its stored info.
C4_IncompleteExhausted ==
    \A t \in TaskIds :
        (tasks[t].pc = "done" /\ tasks[t].outcome = "incomplete"
            /\ tasks[t].retry_count >= max_retries) =>
            /\ Cardinality(attempts_of(tasks[t].job_id)) = max_retries + 1
            /\ \E i \in 1..Len(state_file.failed) :
                /\ state_file.failed[i].job_id = tasks[t].job_id
                /\ state_file.failed[i].info.retry_count = max_retries

C6_TimeoutIsFatal ==
    \A t \in TaskIds :
        tasks[t].outcome = "timeout" =>
            /\ tasks[t].error_type = "fatal"
            /\ tasks[t].pc \in {"hf_record", "hf_mark", "hf_cleanup", "done"}
            /\ tasks[t].job_id \notin queued_ids(state_file)
            /\ tasks[t].pc = "done" => tasks[t].job_id \in failed_ids

\* every job id the document mentions
document_ids ==
    queued_ids(state_file) \cup running_ids(state_file) \cup completed_ids \cup failed_ids

derived_jobs_of(molecule_name) ==
    {id \in document_ids : id[1] = freq_stem(molecule_name) /\ id[2] = "freq"}

\* C7: once a successful Primary (opt) attempt has been handled, if the final
\* geometry was extracted exactly one Derived (freq) job for the same subject
\* has been created; if it was not, no Derived job has been created, and the
\* Primary job is in `completed` and not in `failed`.
C7_ChainCreatesDerived ==
    \A t \in TaskIds :
        LET k == tasks[t] IN
        (k.pc = "done" /\ k.job_info.calc_type = "opt" /\ is_success(k.outcome)) =>
            IF k.outcome = "success_geom"
            THEN Cardinality(derived_jobs_of(k.job_info.molecule_name)) = 1
            ELSE /\ derived_jobs_of(k.job_info.molecule_name) = {}
                 /\ k.job_id \in completed_ids
                 /\ k.job_id \notin failed_ids

\* C8: chaining is one level deep: the success of a Derived (freq) job
\* creates nothing, so every geometry file in the waiting directory is one a
\* user dropped or the one chained from a Primary job, and every job in the
\* document is for a dropped file.
C8_ChainOneLevel ==
    /\ \A f \in waiting_dir :
           f[1] \in Molecules \cup {freq_stem(m) : m \in {n \in Molecules : calc_type_of(n) = "opt"}}
    /\ \A id \in document_ids : id[1] \in Molecules
    /\ \A t \in TaskIds : tasks[t].job_info.molecule_name \in Molecules

C8_Witness ==
    \E t \in TaskIds :
        /\ tasks[t].pc = "done"
        /\ tasks[t].job_info.calc_type = "freq"
        /\ tasks[t].outcome = "success_geom"
        /\ tasks[t].job_id \in completed_ids

\* C9: the jobs process_jobs has dequeued and not yet collected never
\* exceed max_parallel_jobs, and no more than max_parallel_jobs attempts
\* execute at the same time.
C9_BoundedAdmission ==
    /\ Len(futures) + (IF ctl_job # NoJob THEN 1 ELSE 0) <= max_parallel
    /\ Cardinality(active) <= max_parallel

C9_Witness ==
    /\ Len(futures) = max_parallel
    /\ \A i \in 1..Len(futures) : futures[i] \in active

stop_requested == ~jm_running

\* C10: once JobManager.stop has been requested no job is moved from `queued`
\* to `running`, and when the stop has returned every job that was dequeued
\* has been handed to a worker and executed.
C10_StopDrains ==
    /\ [][stop_requested => running_ids(state_file') \subseteq running_ids(state_file)]_vars
    /\ [](main_pc = "stopped" =>
            \A id \in running_ids(state_file) : attempts_of(id) # {})

\* tasks whose execution raised an exception in one of the steps of
\* _execute_job: before the try (pc "raised") or inside it (TimeoutExpired
\* leaving _run_orca)
raised_in_steps(t) ==
    \/ tasks[t].pc = "raised"
    \/ tasks[t].pc = "done" /\ tasks[t].outcome = "timeout"

\* C11: when a step of a job's execution (working copy, payload copy, engine
\* run, artifact lookup, interpretation) raised and the execution is over,
\* the job has an entry in `failed` and none in `running`.
C11_RaiseEndsFailed ==
    \A t \in TaskIds :
        raised_in_steps(t) =>
            /\ tasks[t].job_id \in failed_ids
            /\ tasks[t].job_id \notin running_ids(state_file)

\* C12: process_jobs returns only when it has nothing left to do: whenever the
\* control loop goes back to polling, the queue is empty and every submitted
\* job has finished, whether or not some job's execution raised.
C12_LoopSurvivesRaise ==
    [][(ctl_pc # "poll" /\ ctl_pc' = "poll") =>
           /\ get_queue_size(state_file) = 0
           /\ \A t \in TaskIds : finished(t)]_vars

\* a job raised, was collected, and a job submitted after it ran to its end
C12_Witness ==
    /\ ctl_pc = "poll"
    /\ \E t, u \in TaskIds :
        /\ t < u
        /\ tasks[t].pc = "raised"
        /\ tasks[u].pc = "done"

\* the threads that hold a dequeued job: the job thread between get_next_job
\* and submit, and the pool for a task that has not finished
owned_ids ==
    (IF ctl_job # NoJob THEN {ctl_job[1]} ELSE {})
        \cup {tasks[t].job_id : t \in {u \in TaskIds : ~finished(u)}}

\* C13: every id in `running` belongs to a job that the job thread is handing
\* to the pool or that the pool is executing or about to execute.
C13_RunningIsOwned == running_ids(state_file) \subseteq owned_ids
\* C14: the state file on disk is whole at every moment; its content changes
\* only when a completely written temporary file is moved onto it; so the
\* read that follows a kill of the process, wherever inside atomic_write it
\* fell, returns without raising the document committed last.
C14_CrashKeepsCommitted ==
    /\ [](file_stat = whole_file)
    /\ [][state_file' # state_file =>
            /\ write_pc = "writing" /\ tmp.exists /\ tmp.len = FileLen
            /\ state_file' = pending]_vars
    /\ [](op.name = "read" => ~op.raised /\ op.doc = state_file)

\* the process was killed with the temporary file partly written, and the
\* next process read a document that holds jobs
C14_Witness ==
    /\ op.name = "read"
    /\ tmp.exists /\ tmp.len < FileLen
    /\ op.doc = state_file
    /\ state_file # empty_state
    /\ tmp.data # state_file

\* C15: a job that get_next_job has returned to its caller has its entry in
\* `running` of the document on disk (the move was persisted).
C15_ReturnedJobPersisted ==
    (op.name = "get_next_job" /\ write_pc = "idle" /\ op.result # NoJob) =>
        op.result \in running_ids(state_file)
\* a StateStore method was called in this step
store_step == op'.seq # op.seq

\* C16: constructing the store on a missing state file writes the empty
\* aggregate; a method that meets a truncated or unreadable state file does
\* not raise and works on the empty aggregate: it leaves on disk what the
\* method makes of the empty aggregate, or leaves the file alone when the
\* method has nothing to write.
C16_CorruptReadsAsEmpty ==
    /\ [](~op.raised)
    /\ [][(write_pc = "new" /\ write_pc' = "idle" /\ ~file_stat.exists) =>
            (file_stat' = whole_file /\ state_file' = empty_state)]_vars
    /\ [][(store_step /\ file_stat # whole_file) =>
            LET made == store_call(op'.name, op'.job_id, empty_state) IN
            /\ op'.doc = empty_state
            /\ IF made # empty_state
               THEN state_file' = made /\ file_stat' = whole_file
               ELSE UNCHANGED <<state_file, file_stat>>]_vars

\* add_job met a truncated state file and left a whole document holding the job
C16_Witness ==
    /\ op.name = "add_job"
    /\ op.stat.exists /\ op.stat.readable /\ op.stat.len < FileLen
    /\ file_stat = whole_file
    /\ queued_ids(state_file) = {op.job_id}

\* C18: add_job changes nothing when the id is already in `queued`, appends
\* exactly one entry at the tail otherwise, and a second identical call
\* changes nothing more.
C18_AddJobIdempotent ==
    /\ [](\A id \in JobIds :
            LET st == load_state(state_file, file_stat).value
                once == add_job(st, id, make_job_info(id[1])) IN
            add_job(once, id, make_job_info(id[1])) = once)
    /\ [][(store_step /\ op'.name = "add_job") =>
            LET st == op'.doc
                entry == [job_id |-> op'.job_id, info |-> make_job_info(op'.job_id[1])] IN
            IF op'.job_id \in queued_ids(st)
            THEN UNCHANGED <<state_file, file_stat>>
            ELSE state_file' = [st EXCEPT !.queued = Append(st.queued, entry)]]_vars

\* add_job was called for an id that was in `queued`, behind another entry
C18_Witness ==
    /\ op.name = "add_job"
    /\ op.job_id \in queued_ids(op.doc)
    /\ Len(op.doc.queued) > 1
    /\ state_file = op.doc

\* C19: mark_completed / mark_failed called for an id in `running` removes
\* that entry and appends one entry for the id to completed / failed,
\* touching nothing else; called for an id that is not in `running` it
\* leaves the document as it is.
C19_MarkFrame ==
    [][(store_step /\ op'.name \in {"mark_completed", "mark_failed"}) =>
        LET st == op'.doc
            id == op'.job_id
            done == IF op'.name = "mark_completed" THEN "completed" ELSE "failed"
            other == IF op'.name = "mark_completed" THEN "failed" ELSE "completed" IN
        IF id \in running_ids(st)
        THEN /\ state_file'.running = dict_pop(st.running, id)
             /\ Len(state_file'[done]) = Len(st[done]) + 1
             /\ SubSeq(state_file'[done], 1, Len(st[done])) = st[done]
             /\ state_file'[done][Len(st[done]) + 1].job_id = id
             /\ state_file'[done][Len(st[done]) + 1].info = st.running[id].info
             /\ state_file'[other] = st[other]
             /\ state_file'.queued = st.queued
        ELSE UNCHANGED <<state_file, file_stat>>]_vars

\* mark_completed was called for an id that is not in `running` while
\* another job is
C19_Witness ==
    /\ op.name = "mark_completed"
    /\ op.job_id \notin running_ids(op.doc)
    /\ running_ids(op.doc) # {}
    /\ state_file = op.doc
\* C17: the entries of `completed` and `failed` are only ever appended to, and
\* an id that has an entry in `completed` or `failed` is in neither `queued`
\* nor `running`.
C17_TerminalIsFinal ==
    /\ [](((completed_ids \cup failed_ids)
              \cap (queued_ids(state_file) \cup running_ids(state_file))) = {})
    /\ [][/\ Len(state_file'.completed) >= Len(state_file.completed)
          /\ SubSeq(state_file'.completed, 1, Len(state_file.completed)) = state_file.completed
          /\ Len(state_file'.failed) >= Len(state_file.failed)
          /\ SubSeq(state_file'.failed, 1, Len(state_file.failed)) = state_file.failed]_vars
\* C20: `queued` changes in two ways only: get_next_job takes its first
\* (oldest) entry and hands that job to the control loop, and add_job puts an
\* entry behind all the others; the entry of a retried job is put at the
\* tail with its retry count raised by one, so every job queued before the
\* retry is handed out before the retried job is.
C20_FifoAdmission ==
    [][state_file'.queued # state_file.queued =>
        \/ /\ state_file.queued # <<>>
           /\ state_file'.queued = Tail(state_file.queued)
           /\ ctl_job' = <<Head(state_file.queued).job_id, Head(state_file.queued).info>>
        \/ \E t \in TaskIds :
            /\ tasks[t].pc = "hf_add"
            /\ state_file'.queued =
                   Append(state_file.queued,
                          [job_id |-> tasks[t].job_id,
                           info |-> [tasks[t].job_info EXCEPT
                                        !.retry_count = tasks[t].retry_count + 1]])]_vars

\* a retried job waits at the tail while the job queued before its retry has
\* been handed to the control loop
C20_Witness ==
    /\ ctl_job # NoJob
    /\ ctl_job[2].retry_count = 0
    /\ Len(state_file.queued) = 1
    /\ state_file.queued[1].info.retry_count = 1
    /\ state_file.queued[1].job_id # ctl_job[1]

\* C21: every geometry file the intake takes out of the input directory gets
\* a job id no entry of the state document has, and its job becomes a new
\* entry of `queued`; two files of the same name and kind taken in within the
\* same second are two entries.
C21_IntakeIdsUnique ==
    [][\A m \in Molecules :
          (m \in input_dir /\ m \notin input_dir') =>
              /\ make_job_id(m, now) \notin document_ids
              /\ Len(state_file'.queued) = Len(state_file.queued) + 1]_vars

\* C22: a geometry file is taken in at most once: however the startup scan,
\* the `created` reports of the observer and the clock interleave, the jobs
\* enqueued never outnumber the files that left the input directory, and
\* every change of the document by the intake takes one file out of the
\* input directory and appends one job.
C22_FileProcessedOnce ==
    /\ [](Len(state_file.queued) + Cardinality(input_dir) <= drops)
    /\ [][state_file' # state_file =>
            \E m \in input_dir :
                /\ input_dir' = input_dir \ {m}
                /\ state_file'.queued =
                       Append(state_file.queued,
                              [job_id |-> make_job_id(m, now), info |-> make_job_info(m)])]_vars

\* a second `created` report waits for a file whose job is already queued
C22_Witness ==
    /\ events # <<>>
    /\ Head(events) \notin input_dir
    /\ \E i \in 1..Len(state_file.queued) : state_file.queued[i].job_id[1] = Head(events)
    /\ now = 1

(***************************************************************************)
(* SpecNotify: the Notifier called by the pool threads.  JobManager calls  *)
(* notify_completion and notify_error from _handle_success and             *)
(* _handle_failure on the executor's threads; Notifier has no lock, so the *)
(* statements of two calls interleave (send_email waits on the network).   *)
(***************************************************************************)
MaxCount == 10
MaxClock == 3601

notify_rest == <<state_file, lock, caller_vars, fs_vars, work_dirs, boot, intake_vars,
                 waiting_dir, sched_vars>>

set_frame(w, pc, reg) == [notifier EXCEPT !.frames[w] = [pc |-> pc, reg |-> reg]]

\* orca_notifier.py:61-63   notify_completion is entered; of
\* self.completion_count += 1, the value is loaded
NC_Load(w) ==
    /\ notifier.frames[w].pc = "idle"
    /\ notifier.completions < MaxCount
    /\ notifier' = [enter_completion(notifier) EXCEPT
                       !.frames[w] = [pc |-> "store", reg |-> notifier.completion_count]]
    /\ UNCHANGED now

\* orca_notifier.py:63   ... and the incremented value is stored
NC_Store(w) ==
    /\ notifier.frames[w].pc = "store"
    /\ notifier' = [set_frame(w, "check", 0) EXCEPT
                       !.completion_count = notifier.frames[w].reg + 1]
    /\ UNCHANGED now

\* orca_notifier.py:65   if self.should_notify()
NC_Check(w) ==
    /\ notifier.frames[w].pc = "check"
    /\ notifier' = set_frame(w, IF should_notify(notifier, now) THEN "send" ELSE "idle", 0)
    /\ UNCHANGED now

\* orca_notifier.py:71   if self.send_email(subject, body)
NC_Send(w) ==
    /\ notifier.frames[w].pc = "send"
    /\ \E sent_ok \in BOOLEAN :
        notifier' = IF sent_ok
                    THEN [deliver_alert(notifier, now) EXCEPT
                             !.frames[w] = [pc |-> "record", reg |-> 0]]
                    ELSE set_frame(w, "idle", 0)
    /\ UNCHANGED now

\* orca_notifier.py:72-73   last_notification = now, completion_count = 0
NC_Record(w) ==
    /\ notifier.frames[w].pc = "record"
    /\ notifier' = [record_alert(notifier, now) EXCEPT
                       !.frames[w] = [pc |-> "idle", reg |-> 0]]
    /\ UNCHANGED now

\* orca_notifier.py:75-83   notify_error for a job that failed for good
NE_Send(w, job_id) ==
    /\ notifier.frames[w].pc = "idle"
    /\ job_id \notin DOMAIN notifier.errors
    /\ notifier' = notify_error(notifier, job_id)
    /\ UNCHANGED now

\* time passes: one second, or one notification interval; the clock is looked
\* at on the interval boundaries and one second after them
Wait(d) ==
    /\ now + d <= MaxClock
    /\ d = 1 => now % (interval * 60) = 0
    /\ now' = now + d
    /\ UNCHANGED notifier

InitNotify ==
    /\ state_file = empty_state
    /\ idle_rest
    /\ idle_callers
    /\ fs_idle

NextNotify ==
    \/ \E w \in PoolThreads : NC_Load(w) /\ UNCHANGED notify_rest
    \/ \E w \in PoolThreads : NC_Store(w) /\ UNCHANGED notify_rest
    \/ \E w \in PoolThreads : NC_Check(w) /\ UNCHANGED notify_rest
    \/ \E w \in PoolThreads : NC_Send(w) /\ UNCHANGED notify_rest
    \/ \E w \in PoolThreads : NC_Record(w) /\ UNCHANGED notify_rest
    \/ \E w \in PoolThreads : NE_Send(w, make_job_id("A", 0)) /\ UNCHANGED notify_rest
    \/ \E d \in {1, interval * 60} : Wait(d) /\ UNCHANGED notify_rest

SpecNotify == InitNotify /\ [][NextNotify]_vars

\* C23: a completion mail is sent only in a state where the counter has
\* reached the threshold and either no completion mail was sent before or
\* more than the interval has passed since the latest one; and when the
\* Notifier records the mail, the counter is zero again.
C23_AlertOnlyWhenDue ==
    [][/\ notifier'.alerts > notifier.alerts =>
            /\ notifier.completion_count >= threshold
            /\ \/ notifier.sent_at = None
               \/ now - notifier.sent_at > interval * 60
       /\ notifier'.last_notification # notifier.last_notification =>
            notifier'.completion_count = 0]_vars

\* C24: with threshold 5 and interval 60 minutes (the values of `threshold`
\* and `interval`), starting from a fresh Notifier, the 5th completion
\* triggers exactly one mail and the 6th to 9th trigger none: at any moment
\* every mail sent stands for `threshold` completions of its own.
C24_OneAlertPerBatch ==
    notifier.alerts * threshold <= notifier.completions

\* the number of error mails notify_error has handed to send_email for a job
error_mails(n, job_id) == IF job_id \in DOMAIN n.errors THEN n.errors[job_id] ELSE 0

\* C25: every step that gives a job an entry in `failed` hands exactly one
\* error mail for that job to send_email, whatever the completion counter,
\* the threshold and the time of the last completion mail are; and no step
\* that sends an error mail changes the completion counter or the time of
\* the last completion mail.
C25_ErrorAlertsUnconditional ==
    [][/\ \A id \in failed_ids' \ failed_ids :
            error_mails(notifier', id) = error_mails(notifier, id) + 1
       /\ notifier'.errors # notifier.errors =>
            /\ notifier'.completion_count = notifier.completion_count
            /\ notifier'.last_notification = notifier.last_notification]_vars

\* a job failed for good and its error mail went out while the completion
\* counter was below the threshold
C25_Witness ==
    /\ failed_ids # {}
    /\ \A id \in failed_ids : error_mails(notifier, id) = 1
    /\ notifier.completion_count > 0
    /\ notifier.completion_count < threshold

(***************************************************************************)
(* SpecScenario: three jobs A, B, C are queued when the job thread starts; *)
(* the engine leaves A's first run incomplete and completes every other    *)
(* run (A's second one included).                                          *)
(***************************************************************************)
ScenarioQueues ==
    {q \in [1..3 -> {"A", "B", "C"}] : \A i, j \in 1..3 : i # j => q[i] # q[j]}

scenario_engine == [script |-> "scenario", running |-> <<>>]

InitScenario ==
    /\ \E q \in ScenarioQueues :
        /\ state_file = [empty_state EXCEPT !.queued =
               [i \in 1..3 |-> [job_id |-> make_job_id(q[i], 0),
                                info |-> make_job_info(q[i])]]]
        /\ waiting_dir = UNION {{<<q[i], "inp">>, <<q[i], "xyz">>} : i \in 1..3}
    /\ now = 0 /\ drops = 0 /\ input_dir = {} /\ events = <<>> /\ scan_list = {}
    /\ error_txt = <<>>
    /\ started
    /\ idle_callers
    /\ fs_idle
    /\ notifier = fresh_notifier /\ work_dirs = {} /\ boot = scenario_engine

\* the job thread and the pool threads; no run of the scenario ends in a
\* failure that is not retried, so the terminal branch of _handle_failure
\* has no step here
NextScenario ==
    \/ \E t \in TaskIds : WorkerStart(t) /\ UNCHANGED worker_rest
    \/ \E t \in TaskIds : WorkerRun(t) /\ UNCHANGED worker_rest
    \/ \E t \in TaskIds : HS_MarkCompleted(t) /\ UNCHANGED worker_rest
    \/ \E t \in TaskIds : HS_Chain(t) /\ UNCHANGED worker_rest
    \/ \E t \in TaskIds : HS_Cleanup(t) /\ UNCHANGED worker_rest
    \/ \E t \in TaskIds : HF_AddJob(t) /\ UNCHANGED worker_rest
    \/ \E t \in TaskIds : HF_ClearRunning(t) /\ UNCHANGED worker_rest
    \/ CtlPoll /\ UNCHANGED ctl_rest
    \/ CtlWhile /\ UNCHANGED ctl_rest
    \/ CtlAdmit /\ UNCHANGED ctl_rest
    \/ CtlSubmit /\ UNCHANGED ctl_rest
    \/ CtlCollect /\ UNCHANGED ctl_rest
    \/ CtlDrain /\ UNCHANGED ctl_rest

SpecScenario == InitScenario /\ [][NextScenario]_vars

\* nothing is queued, running, held by the control loop or being executed
settled ==
    /\ state_file.queued = <<>>
    /\ state_file.running = <<>>
    /\ ctl_job = NoJob
    /\ \A t \in TaskIds : finished(t)

\* C26: in the scenario (three jobs queued, A incomplete once and then
\* successful, the others successful), whenever nothing is queued, running
\* or being executed any more, A has an entry in `completed` whose stored
\* retry_count is 1.
C26_ScenarioEndsCompleted ==
    settled =>
        \E i \in 1..Len(state_file.completed) :
            /\ state_file.completed[i].job_id = make_job_id("A", 0)
            /\ state_file.completed[i].info.retry_count = 1

(***************************************************************************)
(* SpecHandlerFaults: the scheduler of Spec where a file operation of      *)
(* _handle_success or _handle_failure (archive copy, plot, chained         *)
(* geometry file, error record) can raise.                                 *)
(***************************************************************************)
NextHandlerFaults ==
    \/ NextScheduler
    \/ \E t \in TaskIds : HS_ArchiveRaises(t) /\ UNCHANGED worker_rest
    \/ \E t \in TaskIds : HS_ChainRaises(t) /\ UNCHANGED worker_rest
    \/ \E t \in TaskIds : HF_ErrorRecordRaises(t) /\ UNCHANGED worker_rest

SpecHandlerFaults == Init /\ [][NextHandlerFaults]_vars

\* attempts that use the working directory of attempt t
sharing_work_dir(t) == {u \in TaskIds : tasks[u].work_dir = tasks[t].work_dir}

\* C27: once an attempt has ended (its handler returned or raised), and no
\* other attempt is using a directory of the same name, the attempt's
\* working directory is gone.
C27_WorkDirRemoved ==
    \A t \in TaskIds :
        (tasks[t].work_dir # NoJob /\ \A u \in sharing_work_dir(t) : finished(u))
            => tasks[t].work_dir \notin work_dirs

\* attempts a pool thread is executing that have created their working directory
in_flight == {t \in active : tasks[t].work_dir # NoJob}

\* C28: no two attempts that are in flight at the same time use the same
\* working directory.
C28_WorkDirExclusive ==
    \A t, u \in in_flight : t # u => tasks[t].work_dir # tasks[u].work_dir

(***************************************************************************)
(* SpecRestart: the pipeline is started on the state document an earlier   *)
(* process left when it was killed: with a job in `running`, and, when the *)
(* kill came between add_job and clear_running of a retry                  *)
(* (orca_job_manager.py:166-167), with that job in `queued` as well.       *)
(***************************************************************************)
RestartDocs ==
    LET a == make_job_id("A", 0)
        run == get_next_job(add_job(empty_state, a, make_job_info("A"))).state
        requeued == add_job(run, a, [make_job_info("A") EXCEPT !.retry_count = 1])
        behind == add_job(run, make_job_id("A_freq", 0), make_job_info("A_freq"))
    IN {run, requeued, behind}

\* the input files of the jobs a document holds are in the waiting directory
waiting_files(state) ==
    UNION {{<<id[1], "inp">>, <<id[1], "xyz">>} :
              id \in queued_ids(state) \cup running_ids(state)}

InitRestart ==
    /\ state_file \in RestartDocs
    /\ waiting_dir = waiting_files(state_file)
    /\ boot = [script |-> "any", running |-> state_file.running]
    /\ notifier = fresh_notifier /\ work_dirs = {}
    /\ file_stat = whole_file /\ tmp = NoTmp /\ write_pc = "new"
    /\ pending = empty_state /\ op = NoOp
    /\ now = 1 /\ drops = 0 /\ input_dir = {} /\ events = <<>> /\ scan_list = {}
    /\ error_txt = <<>>
    /\ pipeline_running = FALSE /\ observer_on = FALSE /\ jm_running = FALSE
    /\ executor_shutdown = FALSE /\ main_pc = "start" /\ ctl_pc = "none"
    /\ ctl_job = NoJob /\ futures = <<>> /\ tasks = <<>>
    /\ idle_callers

\* orca_main.py:186-262   __init__ builds the StateStore, then start()
NextRestart ==
    \/ Construct /\ UNCHANGED fs_rest
    \/ write_pc = "idle" /\ MainGlob /\ UNCHANGED intake_rest
    \/ MainStart /\ UNCHANGED intake_rest
    \/ NextScheduler

SpecRestart == InitRestart /\ [][NextRestart]_vars

\* C29: constructing the StateStore on an existing document leaves the
\* document as it is, and every entry that was in `running` when the process
\* started stays in `running`, unchanged, and its id gets no entry in
\* `completed` or `failed`.
C29_RunningStaysAtRestart ==
    /\ [][write_pc = "new" => state_file' = state_file]_vars
    /\ [](\A id \in DOMAIN boot.running :
            /\ id \in running_ids(state_file)
            /\ state_file.running[id] = boot.running[id]
            /\ id \notin completed_ids \cup failed_ids)

\* C30: no attempt has both the side effects of a success (mark_completed,
\* completion notification) and those of a failure (failure archive with
\* error record, error notification).
C30_OutcomeExclusive ==
    \A t \in TaskIds :
        ~(/\ tasks[t].side \cap {"mark_completed", "notify_completion"} # {}
          /\ tasks[t].side \cap {"error_record", "notify_error"} # {})

\* C31: the input payload of every job in `queued` or `running` is in the
\* waiting directory.
C31_PayloadKept ==
    \A id \in queued_ids(state_file) \cup running_ids(state_file) :
        <<id[1], "inp">> \in waiting_dir

\* no pool thread is inside notify_completion
notifier_idle == \A w \in PoolThreads : notifier.frames[w].pc = "idle"

\* C32: concurrent calls of notify_completion lose no update and send no
\* duplicate mail: while no completion mail has been sent and no call is in
\* progress, the counter equals the number of calls made; and before any
\* time has passed, one crossing of the threshold has sent at most one mail.
C32_NoLostUpdateNoDuplicate ==
    /\ (notifier_idle /\ notifier.alerts = 0) =>
           notifier.completion_count = notifier.completions
    /\ now = 0 => notifier.alerts <= 1

\* C33: when process_jobs returns (no stop requested, no job arriving),
\* `queued` is empty, every job it admitted has been executed and collected,
\* and every such job has an entry in `completed` or `failed`.
C33_ReturnsDrained ==
    [][(ctl_pc = "drain" /\ ctl_pc' = "poll") =>
          /\ state_file.queued = <<>>
          /\ \A t \in TaskIds :
                /\ finished(t)
                /\ tasks[t].job_id \in completed_ids \cup failed_ids]_vars
====
